---- MODULE Spec2Model ----
(***************************************************************************)
(* Model of the upstream routing builder of AdGuardDNSClient               *)
(* (internal/dnssvc/upstream.go): newUpstreams, newUpstreamOrCached and    *)
(* UpstreamGroupConfig.addGroup, followed by query-time lookups in the     *)
(* table the build returned.                                               *)
(*                                                                         *)
(* Strings that the code transforms (question domains) are sequences of    *)
(* one-character strings; strings that the code only compares (group       *)
(* names, addresses) are TLA+ strings.                                     *)
(***************************************************************************)
EXTENDS Integers, Sequences, FiniteSets, TLC

\* ------------------------------------------------------------------------
\* Bounds of the model.

\* The largest number of groups in conf.Groups.
MaxGroups == 2

\* The largest number of match criteria in one group.
MaxMatch == 2

\* The largest length of a domain string in the check of the normalisation.
MaxDomainLen == 3

\* The largest number of addresses in the bootstrap configuration.
MaxBootAddrs == 2

\* The largest value of count in the bind retry configuration.
MaxCount == 4

\* The number of concurrent readers of the routing table.
MaxReaders == 2

\* ------------------------------------------------------------------------
\* Values.

\* agdc.UpstreamGroupNameDefault and agdc.UpstreamGroupNamePrivate.
UpstreamGroupNameDefault == "default"
UpstreamGroupNamePrivate == "private"

\* The group names of the configurations: the two reserved ones and one
\* arbitrary name.
GroupNames == {UpstreamGroupNameDefault, UpstreamGroupNamePrivate, "office"}

\* The address strings of the configurations.
Addresses == {"tls://a", "tls://b"}

\* netip.Prefix: the address as a sequence of components and the number of
\* leading components the prefix fixes.  The zero value netip.Prefix{} is
\* invalid (its bit count is -1) and contains no address.
ZeroPrefix == [ip |-> <<>>, bits |-> -1]
Prefix10 == [ip |-> <<10>>, bits |-> 1]
Prefix10x1 == [ip |-> <<10, 1>>, bits |-> 2]
Prefixes == {ZeroPrefix, Prefix10, Prefix10x1}

\* The client addresses of the lookups: inside both prefixes, inside the
\* wider prefix only, and inside no prefix.
ClientAddrs == {<<10, 1>>, <<10, 2>>, <<192, 168>>}

\* The question domains of the criteria: none, and one domain written in two
\* ways that differ in case and in the trailing dot.
QuestionDomains == {<<>>, <<"A", "b">>, <<"a", "b", ".">>}

\* The question names of the lookups, lowercase and fully qualified as they
\* are on the wire: the configured domain and a subdomain of it.
QueryNames == {<<"a", "b", ".">>, <<"b", ".", "a", "b", ".">>}

\* MatchCriteria, UpstreamGroupConfig.
MatchCriteria == [Client : Prefixes, QuestionDomain : QuestionDomains]

SeqsUpTo(S, n) == UNION {[1..k -> S] : k \in 0..n}

\* Match is read for named groups only; the reserved groups carry none.
UpstreamGroupConfig ==
    [Name : {UpstreamGroupNameDefault, UpstreamGroupNamePrivate},
     Address : Addresses, Match : {<<>>}]
    \cup [Name : GroupNames \ {UpstreamGroupNameDefault, UpstreamGroupNamePrivate},
          Address : Addresses, Match : SeqsUpTo(MatchCriteria, MaxMatch)]

\* UpstreamConfig.Groups.
UpstreamConfig == SeqsUpTo(UpstreamGroupConfig, MaxGroups)

\* upstream.Upstream: an instance is identified by the ordinal of the
\* construction that made it; NilUpstream is the nil interface value.
NilUpstream == [id |-> 0, addr |-> "nil"]
Upstream(id, addr) == [id |-> id, addr |-> addr]

\* Errors are strings; NilError is nil.
NilError == "nil"
ErrConstruct == "bad upstream address"

\* map[string][]upstream.Upstream without keys (nil or empty).
EmptyDomainMap == [d \in {} |-> <<>>]

\* &proxy.UpstreamConfig{}.
EmptyProxyConfig ==
    [Upstreams |-> <<>>,
     DomainReservedUpstreams |-> EmptyDomainMap,
     SpecifiedDomainUpstreams |-> EmptyDomainMap]

\* The private configuration: nil until the first private group.
NilPrivate == [isNil |-> TRUE, Upstreams |-> <<>>]

\* m with key k set to v.
MapSet(m, k, v) == [x \in DOMAIN m \cup {k} |-> IF x = k THEN v ELSE m[x]]

\* m[k] of a Go map of slices: the nil slice when the key is absent.
MapGet(m, k) == IF k \in DOMAIN m THEN m[k] ELSE <<>>

VARIABLES
    conf,       \* conf.Groups, the input of newUpstreams
    pc,         \* "build" inside newUpstreams, "done" after its return,
                \* "panic" after a nil dereference
    idx,        \* the number of groups the loop has processed
    ups,        \* the table: client prefix -> proxy.UpstreamConfig
    private,    \* the private configuration
    upstreams,  \* the address -> upstream map of newUpstreams
    errs,       \* the collected errors
    err,        \* the returned error
    calls,      \* history: the calls of upstream.AddressToUpstream
    results,    \* history: what newUpstreamOrCached returned for each group
    query,      \* the last lookup
    answer      \* its result

\* The variables of newUpstreams and of the lookups.
upstreamVars == <<conf, pc, idx, ups, private, upstreams, errs, err, calls,
                  results, query, answer>>

VARIABLES
    bootConf,   \* conf.Addresses, the input of newResolvers
    bootPc,     \* "idle" before newResolvers, "build" inside it, "done" after
    bootIdx,    \* the number of addresses the loop has processed
    resolvers,  \* the upstream.ConsequentResolver under construction
    closers,    \* the upstreams to close on shutdown
    bootErrs,   \* the collected errors
    bootErr,    \* the returned error
    bootCalls,  \* history: the calls of upstream.NewUpstreamResolver
    resPc,      \* "idle", "trying" inside a resolution, "finished" after it
    resHost,    \* the host name of the resolution
    resPos,     \* the position in the chain of the resolver to try next
    tried,      \* history: the resolvers the resolution has tried
    resResult   \* the result of the last resolution

bootVars == <<bootConf, bootPc, bootIdx, resolvers, closers, bootErrs, bootErr,
              bootCalls, resPc, resHost, resPos, tried, resResult>>

VARIABLES
    bindConf,      \* the bind_retry object of the configuration file
    bindPc,        \* the position of the start of the listeners
    bindInternal,  \* the dnssvc.BindRetryConfig made by toInternal
    attempts,      \* history: the calls of bind and their outcomes
    sleeps,        \* history: the intervals slept between the calls
    bindResult,    \* the error the executor returned
    shutdown,      \* whether a shutdown signal has arrived
    shutdownAt     \* history: the number of calls made when it arrived

bindVars == <<bindConf, bindPc, bindInternal, attempts, sleeps, bindResult,
              shutdown, shutdownAt>>

VARIABLES
    snap,        \* per reader, the contents it saw when its read began
    readStarted  \* history: whether any read has begun

readerVars == <<snap, readStarted>>

VARIABLES
    svcOpts,    \* svc.opts, the command-line options
    svcConf,    \* the configuration Start parsed
    startPc,    \* the position of defaultService.Start
    startErr,   \* the error Start returned
    isVerbose,  \* the verbosity Start computed for the logger
    hdlrAdded,  \* the services added to the service handler
    done,       \* svc.done: whether the channel is closed
    closes,     \* history: the number of times svc.done has been closed
    handlePc,   \* the position of the goroutine running svcHdlr.handle
    handleRes,  \* the result of the shutdown the handler ran
    sent,       \* history: the values sent on svc.errCh
    stopPc,     \* the position of defaultService.Stop
    stopErr     \* the error Stop returned

svcVars == <<svcOpts, svcConf, startPc, startErr, isVerbose, hdlrAdded, done, closes,
             handlePc, handleRes, sent, stopPc, stopErr>>

vars == <<upstreamVars, bootVars, bindVars, readerVars, svcVars>>

\* The OS service before the service manager has called it.
ServiceIdle ==
    /\ svcOpts = [verbose |-> FALSE]
    /\ svcConf = [isNil |-> TRUE, Verbose |-> FALSE]
    /\ startPc = "idle"
    /\ startErr = "nil"
    /\ isVerbose = FALSE
    /\ hdlrAdded = <<>>
    /\ done = FALSE
    /\ closes = 0
    /\ handlePc = "none"
    /\ handleRes = "nil"
    /\ sent = <<>>
    /\ stopPc = "idle"
    /\ stopErr = "nil"

\* A nil *bindRetryConfig and a nil *dnssvc.BindRetryConfig.
NilBindRetry == [isNil |-> TRUE, Enabled |-> FALSE, Interval |-> 0, Count |-> 0]

\* The nil error of bind and the error of its n-th call.
NilBindErr == [isNil |-> TRUE, call |-> 0]
ErrBind(n) == [isNil |-> FALSE, call |-> n]

NoBindResult == [returned |-> FALSE, err |-> NilBindErr]

\* The listeners before their start.
BindIdle ==
    /\ bindConf = NilBindRetry
    /\ bindPc = "idle"
    /\ bindInternal = NilBindRetry
    /\ attempts = <<>>
    /\ sleeps = <<>>
    /\ bindResult = NoBindResult
    /\ shutdown = FALSE
    /\ shutdownAt = 0

\* The workers of the dispatch engine that read the routing table.
Readers == 1..MaxReaders

NoSnapshot == [taken |-> FALSE]

\* No worker has read anything.
ReadersIdle ==
    /\ snap = [r \in Readers |-> NoSnapshot]
    /\ readStarted = FALSE

\* errors.Join(errs...) of no error: nil.
NilJoined == [isNil |-> TRUE, msg |-> "", errs |-> <<>>]

NoResult == [status |-> "none", by |-> 0]

\* The bootstrap chain before newResolvers is called.
BootIdle ==
    /\ bootConf = <<>>
    /\ bootPc = "idle"
    /\ bootIdx = 0
    /\ resolvers = <<>>
    /\ closers = <<>>
    /\ bootErrs = <<>>
    /\ bootErr = NilJoined
    /\ bootCalls = <<>>
    /\ resPc = "idle"
    /\ resHost = ""
    /\ resPos = 0
    /\ tried = <<>>
    /\ resResult = NoResult

\* ------------------------------------------------------------------------
\* Question-domain normalisation: dns.Fqdn(strings.ToLower(domain)).

\* The lowercase form of one character.
ToLowerChar(c) ==
    CASE c = "A" -> "a"
      [] c = "B" -> "b"
      [] OTHER -> c

\* strings.ToLower.
ToLower(s) == [k \in 1..Len(s) |-> ToLowerChar(s[k])]

\* dns.IsFqdn: the name ends with a dot.  (The domains here hold no
\* backslash, so the dot is never an escaped one.)
IsFqdn(s) == Len(s) > 0 /\ s[Len(s)] = "."

\* dns.Fqdn.
Fqdn(s) == IF IsFqdn(s) THEN s ELSE Append(s, ".")

\* The key without the lowercasing.
NormalizeDomain_NoLower(domain) == Fqdn(domain)

\* The key without the trailing dot.
NormalizeDomain_NoFqdn(domain) == ToLower(domain)

\* The key a question domain is stored under.
NormalizeDomain(domain) == Fqdn(ToLower(domain))

\* ------------------------------------------------------------------------
\* newUpstreamOrCached.

\* upstream.AddressToUpstream: the library either returns a new instance
\* or fails; ok is its outcome and id the ordinal of the new instance.
AddressToUpstream(addr, ok, id) ==
    IF ok THEN [u |-> Upstream(id, addr), err |-> NilError]
          ELSE [u |-> NilUpstream, err |-> ErrConstruct]

\* newUpstreamOrCached without the assignment addrToUps[addr] = u.
newUpstreamOrCached_NoStore(addr, addrToUps, made) ==
    IF addr \in DOMAIN addrToUps
    THEN [u |-> addrToUps[addr], err |-> NilError,
          addrToUps |-> addrToUps, called |-> FALSE]
    ELSE IF made.err # NilError
    THEN [u |-> NilUpstream, err |-> made.err,
          addrToUps |-> addrToUps, called |-> TRUE]
    ELSE [u |-> made.u, err |-> NilError,
          addrToUps |-> addrToUps, called |-> TRUE]

\* newUpstreamOrCached with the assignment addrToUps[addr] = u placed before
\* the error check.
newUpstreamOrCached_StoreFirst(addr, addrToUps, made) ==
    IF addr \in DOMAIN addrToUps
    THEN [u |-> addrToUps[addr], err |-> NilError,
          addrToUps |-> addrToUps, called |-> FALSE]
    ELSE IF made.err # NilError
    THEN [u |-> NilUpstream, err |-> made.err,
          addrToUps |-> MapSet(addrToUps, addr, made.u), called |-> TRUE]
    ELSE [u |-> made.u, err |-> NilError,
          addrToUps |-> MapSet(addrToUps, addr, made.u), called |-> TRUE]

\* newUpstreamOrCached(addr, addrToUps, opts); made is what
\* upstream.AddressToUpstream returns if it is called.  The result holds the
\* returned pair, the map as the call leaves it, and whether the library was
\* called.
newUpstreamOrCached(addr, addrToUps, made) ==
    IF addr \in DOMAIN addrToUps
    THEN [u |-> addrToUps[addr], err |-> NilError,
          addrToUps |-> addrToUps, called |-> FALSE]
    ELSE IF made.err # NilError
    THEN [u |-> NilUpstream, err |-> made.err,
          addrToUps |-> addrToUps, called |-> TRUE]
    ELSE [u |-> made.u, err |-> NilError,
          addrToUps |-> MapSet(addrToUps, addr, made.u), called |-> TRUE]

\* ------------------------------------------------------------------------
\* UpstreamGroupConfig.addGroup.

\* The loop body of addGroup without the append to the specified-domain map.
addMatch_ReservedOnly(m, configs, u) ==
    LET conf0 == IF m.Client \in DOMAIN configs
                 THEN configs[m.Client]
                 ELSE EmptyProxyConfig
        domain == NormalizeDomain(m.QuestionDomain)
    IN
    IF m.QuestionDomain = <<>>
    THEN MapSet(configs, m.Client,
                [conf0 EXCEPT !.Upstreams = Append(@, u)])
    ELSE MapSet(configs, m.Client,
                [conf0 EXCEPT
                   !.DomainReservedUpstreams =
                       MapSet(@, domain, Append(MapGet(@, domain), u))])

\* The loop body of addGroup with the upstream put in front of the lists.
addMatch_Prepend(m, configs, u) ==
    LET conf0 == IF m.Client \in DOMAIN configs
                 THEN configs[m.Client]
                 ELSE EmptyProxyConfig
        domain == NormalizeDomain(m.QuestionDomain)
    IN
    IF m.QuestionDomain = <<>>
    THEN MapSet(configs, m.Client,
                [conf0 EXCEPT !.Upstreams = <<u>> \o @])
    ELSE MapSet(configs, m.Client,
                [conf0 EXCEPT
                   !.DomainReservedUpstreams =
                       MapSet(@, domain, <<u>> \o MapGet(@, domain)),
                   !.SpecifiedDomainUpstreams =
                       MapSet(@, domain, <<u>> \o MapGet(@, domain))])

\* The loop body of addGroup without the continue of the catch-all case: a
\* criterion with a question domain is added to the catch-all list as well.
addMatch_AlsoCatchAll(m, configs, u) ==
    LET conf0 == IF m.Client \in DOMAIN configs
                 THEN configs[m.Client]
                 ELSE EmptyProxyConfig
        domain == NormalizeDomain(m.QuestionDomain)
    IN
    IF m.QuestionDomain = <<>>
    THEN MapSet(configs, m.Client,
                [conf0 EXCEPT !.Upstreams = Append(@, u)])
    ELSE MapSet(configs, m.Client,
                [conf0 EXCEPT
                   !.Upstreams = Append(@, u),
                   !.DomainReservedUpstreams =
                       MapSet(@, domain, Append(MapGet(@, domain), u)),
                   !.SpecifiedDomainUpstreams =
                       MapSet(@, domain, Append(MapGet(@, domain), u))])

\* One iteration of the loop of addGroup: the criterion m routes u into
\* configs.
addMatch(m, configs, u) ==
    LET conf0 == IF m.Client \in DOMAIN configs
                 THEN configs[m.Client]
                 ELSE EmptyProxyConfig
        domain == NormalizeDomain(m.QuestionDomain)
    IN
    IF m.QuestionDomain = <<>>
    THEN MapSet(configs, m.Client,
                [conf0 EXCEPT !.Upstreams = Append(@, u)])
    ELSE MapSet(configs, m.Client,
                [conf0 EXCEPT
                   !.DomainReservedUpstreams =
                       MapSet(@, domain, Append(MapGet(@, domain), u)),
                   !.SpecifiedDomainUpstreams =
                       MapSet(@, domain, Append(MapGet(@, domain), u))])

RECURSIVE addGroup(_, _, _)
\* addGroup(configs, u) of a group with the criteria match.
addGroup(match, configs, u) ==
    IF match = <<>>
    THEN configs
    ELSE addGroup(Tail(match), addMatch(Head(match), configs, u), u)

\* ------------------------------------------------------------------------
\* newUpstreams.

\* A table that starts without any entry.
InitUpstreamConfigs_Empty == [p \in {} |-> EmptyProxyConfig]

\* The table newUpstreams starts from: the default group only.
InitUpstreamConfigs == [p \in {ZeroPrefix} |-> EmptyProxyConfig]

\* The error assigned to errs in place of being appended.
AppendGroupErr_Overwrite(es, g, e) == <<[group |-> g.Name, err |-> e]>>

\* fmt.Errorf("group %q: %w", g.Name, err) appended to errs.
AppendGroupErr(es, g, e) == Append(es, [group |-> g.Name, err |-> e])

\* errors.Join(errs...): nil when there is no error.
Join(es) ==
    IF es = <<>> THEN NilJoined ELSE [isNil |-> FALSE, msg |-> "", errs |-> es]

\* errors.Annotate(err, msg): nil stays nil.
Annotate(e, msg) == IF e.isNil THEN e ELSE [e EXCEPT !.msg = msg]

\* The number of instances upstream.AddressToUpstream has made.
Constructed == Cardinality({k \in 1..Len(calls) : calls[k].ok})

\* The switch with the private case falling into the default case as well.
RouteGroup_PrivateFallsThrough(g, configs, priv, u) ==
    CASE g.Name = UpstreamGroupNameDefault ->
           [ups |-> [configs EXCEPT ![ZeroPrefix].Upstreams = Append(@, u)],
            private |-> priv, panic |-> FALSE]
      [] g.Name = UpstreamGroupNamePrivate ->
           [ups |-> [configs EXCEPT ![ZeroPrefix].Upstreams = Append(@, u)],
            private |-> [isNil |-> FALSE, Upstreams |-> Append(priv.Upstreams, u)],
            panic |-> FALSE]
      [] OTHER ->
           [ups |-> addGroup(g.Match, configs, u), private |-> priv,
            panic |-> FALSE]

\* The switch with the bodies of the default and the private case exchanged.
RouteGroup_CasesSwapped(g, configs, priv, u) ==
    CASE g.Name = UpstreamGroupNamePrivate ->
           [ups |-> [configs EXCEPT ![ZeroPrefix].Upstreams = Append(@, u)],
            private |-> priv, panic |-> FALSE]
      [] g.Name = UpstreamGroupNameDefault ->
           [ups |-> configs,
            private |-> [isNil |-> FALSE, Upstreams |-> Append(priv.Upstreams, u)],
            panic |-> FALSE]
      [] OTHER ->
           [ups |-> addGroup(g.Match, configs, u), private |-> priv,
            panic |-> FALSE]

\* The switch on g.Name: the table and the private configuration after the
\* upstream u of the group g is routed.  A table without its default entry
\* makes the default case dereference nil.
RouteGroup(g, configs, priv, u) ==
    CASE g.Name = UpstreamGroupNameDefault ->
           IF ZeroPrefix \in DOMAIN configs
           THEN [ups |-> [configs EXCEPT ![ZeroPrefix].Upstreams = Append(@, u)],
                 private |-> priv, panic |-> FALSE]
           ELSE [ups |-> configs, private |-> priv, panic |-> TRUE]
      [] g.Name = UpstreamGroupNamePrivate ->
           [ups |-> configs,
            private |-> [isNil |-> FALSE, Upstreams |-> Append(priv.Upstreams, u)],
            panic |-> FALSE]
      [] OTHER ->
           [ups |-> addGroup(g.Match, configs, u), private |-> priv,
            panic |-> FALSE]

\* The loop body without its continue: a failed group is recorded and then
\* routed like any other.
LoopBody_NoContinue(g, configs, priv, es, r) ==
    LET routed == RouteGroup(g, configs, priv, r.u)
    IN [ups |-> routed.ups, private |-> routed.private, panic |-> routed.panic,
        errs |-> IF r.err # NilError THEN AppendGroupErr(es, g, r.err) ELSE es]

\* The loop body after the call r of newUpstreamOrCached: a failure is
\* recorded and the loop continues, a success is routed.
LoopBody(g, configs, priv, es, r) ==
    IF r.err # NilError
    THEN [ups |-> configs, private |-> priv, panic |-> FALSE,
          errs |-> AppendGroupErr(es, g, r.err)]
    ELSE LET routed == RouteGroup(g, configs, priv, r.u)
         IN [ups |-> routed.ups, private |-> routed.private,
             panic |-> routed.panic, errs |-> es]

NoQuery == [client |-> <<>>, name |-> <<>>]
NoAnswer == [entry |-> ZeroPrefix, kind |-> "none", Upstreams |-> <<>>]

Init ==
    /\ conf \in UpstreamConfig
    /\ pc = "build"
    /\ idx = 0
    /\ ups = InitUpstreamConfigs
    /\ private = NilPrivate
    /\ upstreams = [a \in {} |-> NilUpstream]
    /\ errs = <<>>
    /\ err = NilJoined
    /\ calls = <<>>
    /\ results = <<>>
    /\ query = NoQuery
    /\ answer = NoAnswer
    /\ BootIdle
    /\ BindIdle
    /\ ReadersIdle
    /\ ServiceIdle

\* newUpstreams before it is called.
UpstreamIdle ==
    /\ conf = <<>>
    /\ pc = "idle"
    /\ idx = 0
    /\ ups = InitUpstreamConfigs
    /\ private = NilPrivate
    /\ upstreams = <<>>
    /\ errs = <<>>
    /\ err = NilJoined
    /\ calls = <<>>
    /\ results = <<>>
    /\ query = NoQuery
    /\ answer = NoAnswer

\* The loop started in a goroutine the return does not wait for: the function
\* can return at any point and the loop goes on after it.
NextStatement_Detached(p, i, n) ==
    (IF p \in {"build", "done"} /\ i < n THEN {"loop"} ELSE {})
      \cup (IF p = "build" THEN {"return"} ELSE {})

\* The statement newUpstreams executes next, after i of n groups: the body of
\* the range loop while a group is left, the return statement after the last
\* group, and nothing once the function has returned or panicked.
NextStatement(p, i, n) ==
    IF p # "build" THEN {}
    ELSE IF i < n THEN {"loop"}
    ELSE {"return"}

\* One iteration of the loop over conf.Groups.
ProcessGroup ==
    /\ "loop" \in NextStatement(pc, idx, Len(conf))
    /\ \E ok \in BOOLEAN :
         LET g == conf[idx + 1]
             made == AddressToUpstream(g.Address, ok, Constructed + 1)
             r == newUpstreamOrCached(g.Address, upstreams, made)
             body == LoopBody(g, ups, private, errs, r)
         IN
         /\ upstreams' = r.addrToUps
         /\ calls' = IF r.called
                     THEN Append(calls, [group |-> idx + 1, addr |-> g.Address,
                                         ok |-> ok])
                     ELSE calls
         /\ results' = Append(results, [u |-> r.u, err |-> r.err])
         /\ idx' = idx + 1
         /\ ups' = body.ups
         /\ private' = body.private
         /\ errs' = body.errs
         /\ pc' = IF body.panic THEN "panic" ELSE pc
    /\ UNCHANGED <<conf, err, query, answer>>
    /\ UNCHANGED <<bootVars, bindVars, readerVars, svcVars>>

\* return ups, private, errors.Join(errs...), annotated by the deferred
\* function.
Return ==
    /\ "return" \in NextStatement(pc, idx, Len(conf))
    /\ pc' = "done"
    /\ err' = Annotate(Join(errs), "creating upstreams")
    /\ UNCHANGED <<conf, idx, ups, private, upstreams, errs, calls, results,
                   query, answer>>
    /\ UNCHANGED <<bootVars, bindVars, readerVars, svcVars>>

\* ------------------------------------------------------------------------
\* Query-time lookup in the returned table.

\* netip.Prefix.Contains: an invalid prefix contains nothing.
Contains(p, a) ==
    /\ p.bits >= 0
    /\ p.bits <= Len(a)
    /\ \A k \in 1..p.bits : p.ip[k] = a[k]

\* The suffix of s that starts at position k.
SuffixFrom(s, k) == [j \in 1..(Len(s) - k + 1) |-> s[k + j - 1]]

\* The key is the name or a parent domain of the name.
DomainMatches(key, name) ==
    /\ Len(key) <= Len(name)
    /\ SuffixFrom(name, Len(name) - Len(key) + 1) = key
    /\ \/ Len(key) = Len(name)
       \/ key = <<".">>
       \/ name[Len(name) - Len(key)] = "."

\* The entry a client is served from: the most specific entry whose prefix
\* contains the client, else the default entry.
ClientEntry(table, client) ==
    LET matching == {p \in DOMAIN table : Contains(p, client)}
    IN IF matching = {}
       THEN ZeroPrefix
       ELSE CHOOSE p \in matching : \A q \in matching : q.bits <= p.bits

\* The upstream list for a question from a client: the domain-specific list
\* of the client's entry when the entry has a match for the name, else the
\* catch-all list of that entry; a client without an entry gets the
\* catch-all list of the default entry.
Lookup(table, client, name) ==
    LET entry == ClientEntry(table, client)
        c == IF entry \in DOMAIN table THEN table[entry] ELSE EmptyProxyConfig
        keys == {k \in DOMAIN c.DomainReservedUpstreams
                         \cup DOMAIN c.SpecifiedDomainUpstreams :
                   DomainMatches(k, name)}
        key == CHOOSE k \in keys : \A other \in keys : Len(other) <= Len(k)
    IN
    IF entry \notin DOMAIN table
    THEN NoAnswer
    ELSE IF entry # ZeroPrefix /\ keys # {}
    THEN [entry |-> entry, kind |-> "domain",
          Upstreams |-> IF key \in DOMAIN c.DomainReservedUpstreams
                        THEN c.DomainReservedUpstreams[key]
                        ELSE c.SpecifiedDomainUpstreams[key]]
    ELSE [entry |-> entry, kind |-> "catch-all", Upstreams |-> c.Upstreams]

\* A query is resolved against the table the build returned.
LookupQuery ==
    /\ pc = "done"
    /\ \E client \in ClientAddrs, name \in QueryNames :
         /\ query' = [client |-> client, name |-> name]
         /\ answer' = Lookup(ups, client, name)
    /\ UNCHANGED <<conf, pc, idx, ups, private, upstreams, errs, err, calls,
                   results>>
    /\ UNCHANGED <<bootVars, bindVars, readerVars, svcVars>>

Next ==
    \/ ProcessGroup
    \/ Return
    \/ LookupQuery

Spec == Init /\ [][Next]_vars

\* ------------------------------------------------------------------------
\* What the library did, read from the history of its calls.

\* The calls of upstream.AddressToUpstream for an address that succeeded,
\* in the history cs.
OkCallsIn(cs, addr) == {k \in 1..Len(cs) : cs[k].addr = addr /\ cs[k].ok}
OkCalls(addr) == OkCallsIn(calls, addr)

\* The construction of the upstream of group i failed.
GroupFailedIn(cs, i) == \E k \in 1..Len(cs) : cs[k].group = i /\ ~cs[k].ok
GroupFailed(i) == GroupFailedIn(calls, i)

\* The instance that call k of the library made.
InstanceOfCall(cs, k) ==
    Upstream(Cardinality({j \in 1..k : cs[j].ok}), cs[k].addr)

\* The instances made for an address.
InstancesOfIn(cs, addr) == {InstanceOfCall(cs, k) : k \in OkCallsIn(cs, addr)}
InstancesOf(addr) == InstancesOfIn(calls, addr)

\* The elements of a sequence.
Range(s) == {s[k] : k \in 1..Len(s)}

\* Every upstream a proxy.UpstreamConfig of the table references.
ConfigUpstreams(c) ==
    Range(c.Upstreams)
    \cup UNION {Range(c.DomainReservedUpstreams[d]) :
                  d \in DOMAIN c.DomainReservedUpstreams}
    \cup UNION {Range(c.SpecifiedDomainUpstreams[d]) :
                  d \in DOMAIN c.SpecifiedDomainUpstreams}

\* Every upstream a routing entry references: the table and the private
\* list.
RoutedUpstreams ==
    UNION {ConfigUpstreams(ups[p]) : p \in DOMAIN ups}
    \cup Range(private.Upstreams)

\* The kinds of routing list that reference the upstream u.
ListsWith(u) ==
    {<<"catch-all", p>> : p \in {q \in DOMAIN ups : u \in Range(ups[q].Upstreams)}}
    \cup {<<"domain", p>> :
            p \in {q \in DOMAIN ups :
                     \E d \in DOMAIN ups[q].DomainReservedUpstreams :
                         u \in Range(ups[q].DomainReservedUpstreams[d])}}
    \cup (IF u \in Range(private.Upstreams) THEN {<<"private", ZeroPrefix>>} ELSE {})

\* ------------------------------------------------------------------------
\* C1: an address is constructed at most once however many groups name it,
\* every routed upstream is the one instance made for its address, and a
\* group that got an upstream got the instance of its own address.
C1_OneInstancePerAddress ==
    /\ \A a \in Addresses : Cardinality(OkCalls(a)) <= 1
    /\ \A u \in RoutedUpstreams : InstancesOf(u.addr) = {u}
    /\ \A i \in 1..Len(results) :
         results[i].err = NilError => InstancesOf(conf[i].Address) = {results[i].u}

\* C1 witness: two groups name one address, the library was called once for
\* it, and the instance is referenced from two different routing lists.
C1_Witness ==
    /\ pc = "done"
    /\ Len(conf) = 2
    /\ conf[1].Address = conf[2].Address
    /\ Cardinality(OkCalls(conf[1].Address)) = 1
    /\ \E u \in RoutedUpstreams : Cardinality(ListsWith(u)) >= 2

\* ------------------------------------------------------------------------
\* C2: a step in which the library fails for the group's address returns
\* the error and leaves the address map as it was; no address is in the map
\* without a successful construction; and a group whose address has no
\* successful construction yet makes the library run again, whatever
\* failed before.
C2_FailureNotCached ==
    [][idx' = idx + 1 =>
         LET a == conf[idx'].Address
             called == Len(calls') = Len(calls) + 1
         IN
         /\ (called /\ ~calls'[Len(calls')].ok) =>
                /\ upstreams' = upstreams
                /\ results'[idx'].err # NilError
                /\ results'[idx'].u = NilUpstream
         /\ \A b \in DOMAIN upstreams' : OkCallsIn(calls', b) # {}
         /\ OkCalls(a) = {} =>
                /\ called
                /\ calls'[Len(calls')].addr = a
                /\ calls'[Len(calls')].group = idx'
    ]_vars

\* C2 witness: the library failed for an address and was called for the
\* same address again by the next group.
C2_Witness ==
    /\ Len(calls) = 2
    /\ calls[1].addr = calls[2].addr
    /\ ~calls[1].ok
    /\ calls[2].ok
    /\ calls[2].addr \in DOMAIN upstreams

\* ------------------------------------------------------------------------
\* The routes a configuration asks for, read from the configuration and the
\* history of the library alone.

\* Two characters that differ at most in case.
SameLetter(c1, c2) == c1 = c2 \/ {c1, c2} \in {{"A", "a"}, {"B", "b"}}

\* A string without its trailing dot.
StripDot(d) ==
    IF Len(d) > 0 /\ d[Len(d)] = "." THEN SubSeq(d, 1, Len(d) - 1) ELSE d

\* Two domains that differ at most in case and in the trailing dot.
SameModCaseDot(d1, d2) ==
    LET s1 == StripDot(d1)
        s2 == StripDot(d2)
    IN Len(s1) = Len(s2) /\ \A k \in 1..Len(s1) : SameLetter(s1[k], s2[k])

IsLowercase(d) == \A k \in 1..Len(d) : d[k] \notin {"A", "B"}
EndsWithDot(d) == Len(d) > 0 /\ d[Len(d)] = "."

\* k is the lowercase, fully qualified form of the domain d.
IsKeyFor(k, d) == IsLowercase(k) /\ EndsWithDot(k) /\ SameModCaseDot(k, d)

\* The instance the library made for an address, if it made one.
InstanceForIn(cs, addr) ==
    IF InstancesOfIn(cs, addr) = {}
    THEN NilUpstream
    ELSE CHOOSE u \in InstancesOfIn(cs, addr) :
            \A v \in InstancesOfIn(cs, addr) : u.id <= v.id
InstanceFor(addr) == InstanceForIn(calls, addr)

\* The routes of group i: none when its construction failed, else one for
\* a reserved group and one per criterion for a named group.
GroupRoutes(i) ==
    LET g == conf[i]
        u == InstanceFor(g.Address)
    IN
    IF GroupFailed(i)
    THEN <<>>
    ELSE CASE g.Name = UpstreamGroupNameDefault ->
                <<[list |-> "catch-all", group |-> i, client |-> ZeroPrefix,
                   domain |-> <<>>, u |-> u]>>
           [] g.Name = UpstreamGroupNamePrivate ->
                <<[list |-> "private", group |-> i, client |-> ZeroPrefix,
                   domain |-> <<>>, u |-> u]>>
           [] OTHER ->
                [j \in 1..Len(g.Match) |->
                   [list |-> IF g.Match[j].QuestionDomain = <<>>
                             THEN "catch-all" ELSE "domain",
                    group |-> i,
                    client |-> g.Match[j].Client,
                    domain |-> g.Match[j].QuestionDomain,
                    u |-> u]]

RECURSIVE RoutesUpTo(_)
\* The routes of the first n groups, in configuration order.
RoutesUpTo(n) == IF n = 0 THEN <<>> ELSE RoutesUpTo(n - 1) \o GroupRoutes(n)

\* The upstreams of a sequence of routes.
RouteUpstreams(rs) == [k \in 1..Len(rs) |-> rs[k].u]

ExpectedCatchAll(rs, p) ==
    RouteUpstreams(SelectSeq(rs, LAMBDA r : r.list = "catch-all" /\ r.client = p))

ExpectedDomainList(rs, p, key) ==
    RouteUpstreams(SelectSeq(rs, LAMBDA r :
        r.list = "domain" /\ r.client = p /\ IsKeyFor(key, r.domain)))

ExpectedPrivate(rs) ==
    RouteUpstreams(SelectSeq(rs, LAMBDA r : r.list = "private"))

ExpectedClients(rs) ==
    {ZeroPrefix} \cup {r.client : r \in {x \in Range(rs) : x.list # "private"}}

\* The table and the private list hold exactly the routes rs.
HoldsExactly(rs) ==
    /\ DOMAIN ups = ExpectedClients(rs)
    /\ private.Upstreams = ExpectedPrivate(rs)
    /\ \A p \in DOMAIN ups :
         /\ ups[p].Upstreams = ExpectedCatchAll(rs, p)
         /\ \A key \in DOMAIN ups[p].DomainReservedUpstreams :
              ups[p].DomainReservedUpstreams[key] = ExpectedDomainList(rs, p, key)
         /\ \A key \in DOMAIN ups[p].SpecifiedDomainUpstreams :
              ups[p].SpecifiedDomainUpstreams[key] = ExpectedDomainList(rs, p, key)
    /\ \A r \in Range(rs) :
         r.list = "domain" =>
            /\ \E key \in DOMAIN ups[r.client].DomainReservedUpstreams :
                  IsKeyFor(key, r.domain)
            /\ \E key \in DOMAIN ups[r.client].SpecifiedDomainUpstreams :
                  IsKeyFor(key, r.domain)

\* ------------------------------------------------------------------------
\* C3: when newUpstreams returns, every group has been processed whatever
\* failed before it, and the table and the private list hold the routes of
\* exactly the groups whose construction did not fail.
C3_FailureDoesNotAbort ==
    pc = "done" =>
        /\ idx = Len(conf)
        /\ Len(results) = Len(conf)
        /\ \A i \in 1..Len(conf) :
             GroupFailed(i) \/ InstancesOf(conf[i].Address) # {}
        /\ HoldsExactly(RoutesUpTo(Len(conf)))

\* C3 witness: the first group failed, the second one has another address,
\* constructed, and its route is in the returned table.
C3_Witness ==
    /\ pc = "done"
    /\ Len(conf) = 2
    /\ GroupFailed(1)
    /\ ~GroupFailed(2)
    /\ conf[1].Address # conf[2].Address
    /\ InstanceFor(conf[2].Address) \in RoutedUpstreams

\* ------------------------------------------------------------------------
\* C4: the returned error is nil exactly when no construction failed, and
\* it joins one error per failing group, in order, each carrying the name
\* of its group.
FailedCalls == SelectSeq(calls, LAMBDA c : ~c.ok)

C4_NoFailureSwallowed ==
    pc = "done" =>
        /\ err.isNil <=> FailedCalls = <<>>
        /\ Len(err.errs) = Len(FailedCalls)
        /\ \A k \in 1..Len(FailedCalls) :
             /\ err.errs[k].group = conf[FailedCalls[k].group].Name
             /\ err.errs[k].err = ErrConstruct
        /\ ~err.isNil => err.msg = "creating upstreams"

\* C4 witness: two groups of different names failed and the returned error
\* names both.
C4_Witness ==
    /\ pc = "done"
    /\ Len(FailedCalls) = 2
    /\ Len(err.errs) = 2
    /\ err.errs[1].group # err.errs[2].group

\* ------------------------------------------------------------------------
\* C5: the returned table has an entry for the zero-value prefix.
C5_DefaultEntryPresent ==
    pc = "done" => ZeroPrefix \in DOMAIN ups

\* C5 witness: a build without a default group in which every group failed
\* returns a table whose only entry is the empty default one.
C5_Witness ==
    /\ pc = "done"
    /\ Len(conf) = 2
    /\ \A i \in 1..Len(conf) :
         conf[i].Name # UpstreamGroupNameDefault /\ GroupFailed(i)
    /\ ups = [p \in {ZeroPrefix} |-> EmptyProxyConfig]

\* ------------------------------------------------------------------------
\* C6: every key of a domain map is lowercase, ends with a dot and is
\* unchanged by a second normalisation; the domains of the processed
\* criteria that differ at most in case and in the trailing dot share one
\* key of their entry; and the same holds of the normalisation of every
\* non-empty domain string up to MaxDomainLen.
DomainChars == {"A", "a", "B", "b", "."}
DomainStrings == SeqsUpTo(DomainChars, MaxDomainLen) \ {<<>>}

NormalisationIsCanonical ==
    /\ \A d \in DomainStrings :
         /\ IsKeyFor(NormalizeDomain(d), d)
         /\ NormalizeDomain(NormalizeDomain(d)) = NormalizeDomain(d)
    /\ \A d1, d2 \in DomainStrings :
         SameModCaseDot(d1, d2) => NormalizeDomain(d1) = NormalizeDomain(d2)

DomainKeys(c) ==
    DOMAIN c.DomainReservedUpstreams \cup DOMAIN c.SpecifiedDomainUpstreams

C6_DomainKeysNormalized ==
    /\ NormalisationIsCanonical
    /\ \A p \in DOMAIN ups :
         \A key \in DomainKeys(ups[p]) :
            /\ IsLowercase(key)
            /\ EndsWithDot(key)
            /\ NormalizeDomain(key) = key
    /\ \A r \in Range(RoutesUpTo(idx)) :
         r.list = "domain" =>
            /\ r.client \in DOMAIN ups
            /\ Cardinality({key \in DomainKeys(ups[r.client]) :
                              SameModCaseDot(key, r.domain)}) = 1

\* C6 witness: two criteria of one client write the domain Ab and ab. and
\* the entry holds both upstreams under the single key ab. .
C6_Witness ==
    /\ pc = "done"
    /\ \E p \in DOMAIN ups :
         /\ DOMAIN ups[p].DomainReservedUpstreams = {<<"a", "b", ".">>}
         /\ Len(ups[p].DomainReservedUpstreams[<<"a", "b", ".">>]) = 2
         /\ \E r1, r2 \in Range(RoutesUpTo(idx)) :
              /\ r1.client = p /\ r1.domain = <<"A", "b">>
              /\ r2.client = p /\ r2.domain = <<"a", "b", ".">>

\* ------------------------------------------------------------------------
\* C7: in every entry the two domain maps are equal; the catch-all list of
\* an entry has one element per catch-all route of that entry and each of
\* its domain maps one element per domain route of that entry, so that a
\* criterion with a question domain adds to both maps of its own entry and
\* to nothing else.
RECURSIVE SumLens(_, _)
\* The number of upstreams the map m holds under the keys ks.
SumLens(m, ks) ==
    IF ks = {}
    THEN 0
    ELSE LET k == CHOOSE x \in ks : TRUE
         IN Len(m[k]) + SumLens(m, ks \ {k})

RoutesOf(rs, list, p) == SelectSeq(rs, LAMBDA r : r.list = list /\ r.client = p)

C7_DomainMapsAgree ==
    \A p \in DOMAIN ups :
        LET c == ups[p]
            rs == RoutesUpTo(idx)
        IN
        /\ DOMAIN c.DomainReservedUpstreams = DOMAIN c.SpecifiedDomainUpstreams
        /\ \A key \in DOMAIN c.DomainReservedUpstreams :
             c.DomainReservedUpstreams[key] = c.SpecifiedDomainUpstreams[key]
        /\ Len(c.Upstreams) = Len(RoutesOf(rs, "catch-all", p))
        /\ SumLens(c.DomainReservedUpstreams, DOMAIN c.DomainReservedUpstreams)
             = Len(RoutesOf(rs, "domain", p))
        /\ SumLens(c.SpecifiedDomainUpstreams, DOMAIN c.SpecifiedDomainUpstreams)
             = Len(RoutesOf(rs, "domain", p))

\* C7 witness: an entry got two domain criteria and no catch-all one, next
\* to a default entry that stayed empty.
C7_Witness ==
    /\ pc = "done"
    /\ ups[ZeroPrefix] = EmptyProxyConfig
    /\ \E p \in DOMAIN ups :
         /\ ups[p].Upstreams = <<>>
         /\ SumLens(ups[p].DomainReservedUpstreams,
                    DOMAIN ups[p].DomainReservedUpstreams) = 2
         /\ ups[p].SpecifiedDomainUpstreams = ups[p].DomainReservedUpstreams

\* ------------------------------------------------------------------------
\* C8: a step that processes a private group leaves the table as it was
\* and, when the construction did not fail, appends the upstream to the
\* private list; the private configuration is nil exactly as long as no
\* private group has constructed.
PrivateConstructed(cs, n) ==
    \E i \in 1..n : conf[i].Name = UpstreamGroupNamePrivate /\ ~GroupFailedIn(cs, i)

C8_PrivateOutsideTable ==
    [][idx' = idx + 1 =>
         /\ conf[idx'].Name = UpstreamGroupNamePrivate =>
              /\ ups' = ups
              /\ GroupFailedIn(calls', idx') => private' = private
              /\ ~GroupFailedIn(calls', idx') =>
                   /\ ~private'.isNil
                   /\ private'.Upstreams =
                        Append(private.Upstreams,
                               InstanceForIn(calls', conf[idx'].Address))
         /\ conf[idx'].Name # UpstreamGroupNamePrivate => private' = private
         /\ private'.isNil <=> ~PrivateConstructed(calls', idx')
         /\ private'.isNil => private'.Upstreams = <<>>
    ]_vars

\* C8 witness: two private groups constructed; the private list holds both
\* upstreams and the table is the empty default entry alone.
C8_Witness ==
    /\ pc = "done"
    /\ Len(conf) = 2
    /\ Len(private.Upstreams) = 2
    /\ ~private.isNil
    /\ ups = [p \in {ZeroPrefix} |-> EmptyProxyConfig]

\* ------------------------------------------------------------------------
\* C9: when the configuration gives a client prefix a criterion for the
\* domain D and a catch-all criterion, a lookup for D from a client whose
\* most specific configured prefix is that one yields the upstreams of the
\* criteria for D, taken from the domain maps and not from the catch-all
\* list.
ConfiguredClients == {r.client : r \in {x \in Range(RoutesUpTo(idx)) : x.list # "private"}}

CatchAllCount(g, p) ==
    Cardinality({j \in 1..Len(g.Match) :
                   g.Match[j].Client = p /\ g.Match[j].QuestionDomain = <<>>})

HasDomainCriterion(g, p) ==
    \E j \in 1..Len(g.Match) :
        g.Match[j].Client = p /\ g.Match[j].QuestionDomain # <<>>

ListsInOrder ==
    \A p \in DOMAIN ups :
        /\ ups[p].Upstreams = ExpectedCatchAll(RoutesUpTo(idx), p)
        /\ \A key \in DOMAIN ups[p].DomainReservedUpstreams :
             ups[p].DomainReservedUpstreams[key]
                = ExpectedDomainList(RoutesUpTo(idx), p, key)
        /\ \A key \in DOMAIN ups[p].SpecifiedDomainUpstreams :
             ups[p].SpecifiedDomainUpstreams[key]
                = ExpectedDomainList(RoutesUpTo(idx), p, key)

C18_NamedCatchAllAppended ==
    [][(/\ idx' = idx + 1
        /\ conf[idx'].Name \notin {UpstreamGroupNameDefault, UpstreamGroupNamePrivate}
        /\ ~GroupFailedIn(calls', idx'))
       =>
       LET g == conf[idx']
           u == InstanceForIn(calls', g.Address)
       IN
       /\ \A p \in Prefixes :
            LET n == CatchAllCount(g, p)
                old == IF p \in DOMAIN ups THEN ups[p] ELSE EmptyProxyConfig
            IN
            /\ n > 0 => p \in DOMAIN ups'
            /\ p \in DOMAIN ups' =>
                 /\ ups'[p].Upstreams = old.Upstreams \o [k \in 1..n |-> u]
                 /\ ~HasDomainCriterion(g, p) =>
                      /\ ups'[p].DomainReservedUpstreams
                           = old.DomainReservedUpstreams
                      /\ ups'[p].SpecifiedDomainUpstreams
                           = old.SpecifiedDomainUpstreams
            /\ p \in DOMAIN ups => p \in DOMAIN ups'
       /\ ListsInOrder'
    ]_vars

\* C18 witness: two named groups with different upstreams each gave the same
\* client a catch-all criterion; the entry, absent at first, lists the two
\* upstreams in the order of the groups and has no domain key.
C18_Witness ==
    /\ pc = "done"
    /\ Len(conf) = 2
    /\ \A i \in 1..2 :
         conf[i].Name \notin {UpstreamGroupNameDefault, UpstreamGroupNamePrivate}
    /\ Prefix10 \in DOMAIN ups
    /\ Len(ups[Prefix10].Upstreams) = 2
    /\ ups[Prefix10].Upstreams[1].id = 1
    /\ ups[Prefix10].Upstreams[2].id = 2
    /\ ups[Prefix10].Upstreams[1].addr = conf[1].Address
    /\ ups[Prefix10].Upstreams[2].addr = conf[2].Address
    /\ DOMAIN ups[Prefix10].DomainReservedUpstreams = {}

\* ------------------------------------------------------------------------
\* C19: when no criterion of the configuration is the zero value, the
\* catch-all list of the default entry of the returned table is the
\* sequence of the upstreams of the groups named default whose construction
\* did not fail, in configuration order; a criterion with the zero-value
\* client and a question domain puts its upstream under a key of both
\* domain maps of the default entry.
ZeroCriterion == [Client |-> ZeroPrefix, QuestionDomain |-> <<>>]

NoZeroCriterion ==
    \A i \in 1..Len(conf) : \A j \in 1..Len(conf[i].Match) :
        conf[i].Match[j] # ZeroCriterion

\* The indices of the default groups that constructed, in order.
DefaultGroups ==
    SelectSeq([i \in 1..Len(conf) |-> i],
              LAMBDA i : conf[i].Name = UpstreamGroupNameDefault /\ ~GroupFailed(i))

C19_DefaultCatchAllIsDefaultGroups ==
    (pc = "done" /\ NoZeroCriterion) =>
        /\ ups[ZeroPrefix].Upstreams =
             [k \in 1..Len(DefaultGroups) |->
                InstanceFor(conf[DefaultGroups[k]].Address)]
        /\ \A r \in Range(RoutesUpTo(idx)) :
             (r.list = "domain" /\ r.client = ZeroPrefix) =>
                /\ \E key \in DOMAIN ups[ZeroPrefix].DomainReservedUpstreams :
                     /\ IsKeyFor(key, r.domain)
                     /\ r.u \in Range(ups[ZeroPrefix].DomainReservedUpstreams[key])
                /\ \E key \in DOMAIN ups[ZeroPrefix].SpecifiedDomainUpstreams :
                     /\ IsKeyFor(key, r.domain)
                     /\ r.u \in Range(ups[ZeroPrefix].SpecifiedDomainUpstreams[key])

\* C19 witness: a default group and a named group with a domain-only
\* criterion, with different upstreams; the default catch-all list holds the
\* former alone and the default domain maps the latter.
C19_Witness ==
    /\ pc = "done"
    /\ NoZeroCriterion
    /\ Len(conf) = 2
    /\ conf[1].Name = UpstreamGroupNameDefault
    /\ conf[2].Match = <<[Client |-> ZeroPrefix, QuestionDomain |-> <<"A", "b">>]>>
    /\ conf[1].Address # conf[2].Address
    /\ ups[ZeroPrefix].Upstreams = <<InstanceFor(conf[1].Address)>>
    /\ <<"a", "b", ".">> \in DOMAIN ups[ZeroPrefix].DomainReservedUpstreams
    /\ ups[ZeroPrefix].DomainReservedUpstreams[<<"a", "b", ".">>]
         = <<InstanceFor(conf[2].Address)>>

\* ---------------------------------------------------------------------------
\* The bootstrap resolvers: newResolvers and the resolution through the chain.
\* ---------------------------------------------------------------------------

\* The values of netip.AddrPort the bootstrap configuration draws from.
BootAddrPorts ==
    {[ip |-> "8.8.8.8", port |-> 53], [ip |-> "8.8.4.4", port |-> 53]}

\* conf.Addresses: any list of addresses, duplicates included.
BootstrapConfig == SeqsUpTo(BootAddrPorts, MaxBootAddrs)

\* addr.String() of a netip.AddrPort.
AddrPortString(a) ==
    CASE a = [ip |-> "8.8.8.8", port |-> 53] -> "8.8.8.8:53"
      [] a = [ip |-> "8.8.4.4", port |-> 53] -> "8.8.4.4:53"

\* The host names the upstreams ask the bootstrap chain for.
Hosts == {"dns.example", "doh.example"}

NilResolver == [id |-> 0, addr |-> ""]

\* upstream.NewUpstreamResolver(addr, opts): the environment decides whether the
\* address makes a resolver; id names the instance made.
NewUpstreamResolver(addr, ok, id) ==
    IF ok THEN [b |-> [id |-> id, addr |-> addr], err |-> NilError]
          ELSE [b |-> NilResolver, err |-> ErrConstruct]

\* upstream.NewCachingResolver(b): b behind a cache that starts empty.
NewCachingResolver(b) == [id |-> b.id, addr |-> b.addr, cached |-> {}]

\* b.Upstream, the upstream the resolver b asks.
UpstreamOf(b) == [id |-> b.id, addr |-> b.addr]

\* The error annotated with the position counted from one.
AppendIndexErr_OneBased(es, i, e) == Append(es, [index |-> i + 1, err |-> e])

\* fmt.Errorf("resolvers: at index %d: %w", i, err) appended to errs.
AppendIndexErr(es, i, e) == Append(es, [index |-> i, err |-> e])

\* The body without the continue: the failed resolver joins the chain.
BootLoopBody_NoContinue(i, made, rs, cs, es) ==
    [resolvers |-> Append(rs, NewCachingResolver(made.b)),
     closers |-> Append(cs, UpstreamOf(made.b)),
     errs |-> IF made.err # NilError THEN AppendIndexErr(es, i, made.err)
                                     ELSE es]

\* The body that forgets the closer of a constructed resolver.
BootLoopBody_CloserMissing(i, made, rs, cs, es) ==
    IF made.err # NilError
      THEN [resolvers |-> rs, closers |-> cs,
            errs |-> AppendIndexErr(es, i, made.err)]
      ELSE [resolvers |-> Append(rs, NewCachingResolver(made.b)),
            closers |-> cs, errs |-> es]

\* The body that puts the new resolver in front of the chain.
BootLoopBody_Prepend(i, made, rs, cs, es) ==
    IF made.err # NilError
      THEN [resolvers |-> rs, closers |-> cs,
            errs |-> AppendIndexErr(es, i, made.err)]
      ELSE [resolvers |-> <<NewCachingResolver(made.b)>> \o rs,
            closers |-> <<UpstreamOf(made.b)>> \o cs, errs |-> es]

\* The body of the loop over conf.Addresses, after NewUpstreamResolver returned
\* made for the address at index i.
BootLoopBody(i, made, rs, cs, es) ==
    IF made.err # NilError
      THEN [resolvers |-> rs, closers |-> cs,
            errs |-> AppendIndexErr(es, i, made.err)]
      ELSE [resolvers |-> Append(rs, NewCachingResolver(made.b)),
            closers |-> Append(cs, UpstreamOf(made.b)), errs |-> es]

\* The number of resolvers upstream.NewUpstreamResolver has made.
BootConstructed == Cardinality({k \in 1..Len(bootCalls) : bootCalls[k].ok})

\* The state newResolvers starts from: both lists empty, no error.
InitBoot ==
    /\ bootConf \in BootstrapConfig
    /\ bootPc = "build"
    /\ bootIdx = 0
    /\ resolvers = <<>>
    /\ closers = <<>>
    /\ bootErrs = <<>>
    /\ bootErr = NilJoined
    /\ bootCalls = <<>>
    /\ resPc = "idle"
    /\ resHost = ""
    /\ resPos = 0
    /\ tried = <<>>
    /\ resResult = NoResult
    /\ UpstreamIdle
    /\ BindIdle
    /\ ReadersIdle
    /\ ServiceIdle

\* One iteration of the loop over conf.Addresses.
ProcessAddress ==
    /\ bootPc = "build"
    /\ bootIdx < Len(bootConf)
    /\ \E ok \in BOOLEAN :
         LET i    == bootIdx
             addr == AddrPortString(bootConf[i + 1])
             made == NewUpstreamResolver(addr, ok, BootConstructed + 1)
             r    == BootLoopBody(i, made, resolvers, closers, bootErrs)
         IN /\ resolvers' = r.resolvers
            /\ closers' = r.closers
            /\ bootErrs' = r.errs
            /\ bootCalls' = Append(bootCalls,
                                   [index |-> i, addr |-> addr, ok |-> ok,
                                    id |-> made.b.id])
    /\ bootIdx' = bootIdx + 1
    /\ UNCHANGED <<bootConf, bootPc, bootErr, resPc, resHost, resPos, tried,
                   resResult>>
    /\ UNCHANGED <<upstreamVars, bindVars, readerVars, svcVars>>

\* return resolvers, closers, errors.Join(errs...), and the deferred Annotate.
ReturnResolvers ==
    /\ bootPc = "build"
    /\ bootIdx = Len(bootConf)
    /\ bootPc' = "done"
    /\ bootErr' = Annotate(Join(bootErrs), "creating bootstraps")
    /\ UNCHANGED <<bootConf, bootIdx, resolvers, closers, bootErrs, bootCalls,
                   resPc, resHost, resPos, tried, resResult>>
    /\ UNCHANGED <<upstreamVars, bindVars, readerVars, svcVars>>

ErrNoResolvers == "no resolvers"

\* The entry of ConsequentResolver.LookupNetIP: an empty chain answers
\* ErrNoResolvers at once, any other chain starts with its first resolver.
StartLookupNetIP ==
    /\ bootPc = "done"
    /\ resPc \in {"idle", "finished"}
    /\ \E host \in Hosts :
         /\ resHost' = host
         /\ tried' = <<>>
         /\ IF Len(resolvers) = 0
              THEN /\ resPc' = "finished"
                   /\ resPos' = 0
                   /\ resResult' = [status |-> ErrNoResolvers, by |-> 0]
              ELSE /\ resPc' = "trying"
                   /\ resPos' = 1
                   /\ resResult' = NoResult
    /\ UNCHANGED <<bootConf, bootPc, bootIdx, resolvers, closers, bootErrs,
                   bootErr, bootCalls>>
    /\ UNCHANGED <<upstreamVars, bindVars, readerVars, svcVars>>

\* One resolver of the chain asked for the host: a cached answer is returned
\* without asking the server, a server's answer is cached, the first success
\* ends the resolution, a failure moves on to the next resolver, and the failure
\* of the last one ends the resolution with the joined errors.
TryResolver ==
    /\ resPc = "trying"
    /\ \E replies \in BOOLEAN :
         LET r       == resolvers[resPos]
             hit     == resHost \in r.cached
             success == hit \/ replies
         IN /\ tried' = Append(tried, [pos |-> resPos, id |-> r.id,
                                       addr |-> r.addr, ok |-> success,
                                       asked |-> ~hit])
            /\ resolvers' = IF success /\ ~hit
                              THEN [resolvers EXCEPT
                                      ![resPos].cached = @ \cup {resHost}]
                              ELSE resolvers
            /\ IF success
                 THEN /\ resPc' = "finished"
                      /\ resPos' = resPos
                      /\ resResult' = [status |-> "ok", by |-> resPos]
                 ELSE IF resPos = Len(resolvers)
                        THEN /\ resPc' = "finished"
                             /\ resPos' = resPos
                             /\ resResult' = [status |-> "failed", by |-> 0]
                        ELSE /\ resPc' = "trying"
                             /\ resPos' = resPos + 1
                             /\ resResult' = resResult
    /\ UNCHANGED <<bootConf, bootPc, bootIdx, closers, bootErrs, bootErr,
                   bootCalls, resHost>>
    /\ UNCHANGED <<upstreamVars, bindVars, readerVars, svcVars>>

NextBoot ==
    \/ ProcessAddress
    \/ ReturnResolvers
    \/ StartLookupNetIP
    \/ TryResolver

SpecBoot == InitBoot /\ [][NextBoot]_vars

\* The calls of upstream.NewUpstreamResolver that made a resolver, in the order
\* of the calls.
OkBootCalls == SelectSeq(bootCalls, LAMBDA c : c.ok)

\* The calls of upstream.NewUpstreamResolver that failed, in the order of the
\* calls.
FailedBootCalls == SelectSeq(bootCalls, LAMBDA c : ~c.ok)

\* Every configured address has been handed to upstream.NewUpstreamResolver
\* once, in the order of the configuration.
EveryAddressProcessed ==
    /\ Len(bootCalls) = Len(bootConf)
    /\ \A k \in 1..Len(bootCalls) :
         /\ bootCalls[k].index = k - 1
         /\ bootCalls[k].addr = AddrPortString(bootConf[k])

\* The chain and the closers hold, index by index, the resolver made by the
\* k-th successful call and its upstream.
PairedWithOkCalls ==
    /\ Len(resolvers) = Len(OkBootCalls)
    /\ Len(closers) = Len(OkBootCalls)
    /\ \A k \in 1..Len(OkBootCalls) :
         /\ resolvers[k].id = OkBootCalls[k].id
         /\ resolvers[k].addr = OkBootCalls[k].addr
         /\ closers[k] = [id |-> OkBootCalls[k].id, addr |-> OkBootCalls[k].addr]

\* C12: newResolvers skips every address whose resolver cannot be constructed
\* and goes on with the remaining addresses; the chain and the closers it
\* returns hold exactly the successfully constructed resolvers, in input order
\* and paired index by index, and a resolution that succeeds is answered by a
\* resolver of that chain.
C12_SkipsFailingAddresses ==
    bootPc = "done" =>
      /\ EveryAddressProcessed
      /\ PairedWithOkCalls
      /\ (resPc = "finished" /\ resResult.status = "ok") =>
           /\ resResult.by \in 1..Len(resolvers)
           /\ tried[Len(tried)].id = OkBootCalls[resResult.by].id

\* The first address fails, the second makes a resolver, and a resolution is
\* answered by the resolver of the second address.
C12_Witness ==
    /\ bootPc = "done"
    /\ Len(bootConf) = 2
    /\ ~bootCalls[1].ok
    /\ bootCalls[2].ok
    /\ Len(resolvers) = 1
    /\ resolvers[1].addr = AddrPortString(bootConf[2])
    /\ closers = <<[id |-> bootCalls[2].id, addr |-> bootCalls[2].addr]>>
    /\ resPc = "finished"
    /\ resResult = [status |-> "ok", by |-> 1]

\* Every resolver tried so far has failed.
AllTriedFailed == \A k \in 1..Len(tried) : ~tried[k].ok

\* C13: a resolution through the bootstrap chain tries the resolvers strictly in
\* the order of the configured addresses, returns the result of the first
\* resolver that succeeds without trying a later one, goes on to the next
\* resolver whenever one fails, and fails only when every resolver of the chain
\* has failed.
C13_TriedInInputOrder ==
    bootPc = "done" =>
      /\ Len(tried) <= Len(OkBootCalls)
      /\ \A k \in 1..Len(tried) :
           /\ tried[k].pos = k
           /\ tried[k].id = OkBootCalls[k].id
           /\ tried[k].addr = OkBootCalls[k].addr
      /\ \A k \in 1..(Len(tried) - 1) : ~tried[k].ok
      /\ resPc = "trying" =>
           /\ AllTriedFailed
           /\ resPos = Len(tried) + 1
           /\ resPos <= Len(resolvers)
      /\ (resPc = "finished" /\ Len(tried) > 0) =>
           /\ resResult.status = "ok" <=> tried[Len(tried)].ok
           /\ resResult.status = "ok" => resResult.by = Len(tried)
           /\ resResult.status # "ok" =>
                /\ resResult.status = "failed"
                /\ AllTriedFailed
                /\ Len(tried) = Len(resolvers)

\* The first resolver of a chain of two resolvers with different addresses fails
\* for the host and the second one answers.
C13_Witness ==
    /\ bootPc = "done"
    /\ resPc = "finished"
    /\ Len(resolvers) = 2
    /\ resolvers[1].addr # resolvers[2].addr
    /\ Len(tried) = 2
    /\ ~tried[1].ok
    /\ tried[2].ok
    /\ resResult = [status |-> "ok", by |-> 2]

FailedIndexes ==
    SelectSeq([k \in 1..Len(bootCalls) |-> k - 1],
              LAMBDA i : ~bootCalls[i + 1].ok)

\* C20: newResolvers records one error for every bootstrap address that fails to
\* construct, annotated with the index of that address in the input list, and
\* returns the join of these errors together with the chain and the closers
\* built from the other addresses; the returned error is nil exactly when every
\* address constructed.
C20_ErrorPerFailedAddress ==
    bootPc = "done" =>
      /\ bootErr.isNil <=> (\A k \in 1..Len(bootConf) : bootCalls[k].ok)
      /\ Len(bootErr.errs) = Len(FailedIndexes)
      /\ \A k \in 1..Len(FailedIndexes) :
           /\ bootErr.errs[k].index = FailedIndexes[k]
           /\ bootErr.errs[k].err = ErrConstruct
      /\ ~bootErr.isNil => bootErr.msg = "creating bootstraps"
      /\ Len(resolvers) = Len(bootConf) - Len(FailedIndexes)
      /\ Len(closers) = Len(bootConf) - Len(FailedIndexes)
      /\ \A k \in 1..Len(resolvers) :
           /\ resolvers[k].addr = OkBootCalls[k].addr
           /\ closers[k].addr = OkBootCalls[k].addr

\* The first address makes a resolver and the second fails: the error names
\* index 1 and the chain holds the resolver of the first address.
C20_Witness ==
    /\ bootPc = "done"
    /\ Len(bootConf) = 2
    /\ bootCalls[1].ok
    /\ ~bootCalls[2].ok
    /\ ~bootErr.isNil
    /\ Len(bootErr.errs) = 1
    /\ bootErr.errs[1].index = 1
    /\ Len(resolvers) = 1
    /\ resolvers[1].addr = AddrPortString(bootConf[1])

\* ---------------------------------------------------------------------------
\* The bind retry: its configuration and the executor that calls bind.
\* ---------------------------------------------------------------------------

\* The values of interval, in seconds.
Intervals == {0, 1}

\* The bind_retry object: absent, or any values of its three fields.
BindRetryConfigs ==
    {NilBindRetry}
      \cup [isNil : {FALSE}, Enabled : BOOLEAN, Interval : Intervals,
            Count : 0..MaxCount]

\* bindRetryConfig.Validate: the interval has to be positive only when the
\* retry is enabled.
Validate(c) ==
    IF c.isNil THEN "no value"
    ELSE IF ~c.Enabled THEN NilError
    ELSE IF c.Interval > 0 THEN NilError
    ELSE "interval: not positive"

\* The conversion that leaves Count at its zero value.
toInternal_NoCount(c) ==
    [isNil |-> FALSE, Enabled |-> c.Enabled, Interval |-> c.Interval,
     Count |-> 0]

\* The conversion that always enables the retry.
toInternal_AlwaysEnabled(c) ==
    [isNil |-> FALSE, Enabled |-> TRUE, Interval |-> c.Interval,
     Count |-> c.Count]

\* The conversion that takes Count for the number of all attempts but one more.
toInternal_CountPlusOne(c) ==
    [isNil |-> FALSE, Enabled |-> c.Enabled, Interval |-> c.Interval,
     Count |-> c.Count + 1]

\* bindRetryConfig.toInternal: the three fields copied.
toInternal(c) ==
    [isNil |-> FALSE, Enabled |-> c.Enabled, Interval |-> c.Interval,
     Count |-> c.Count]

\* What the executor does after the n-th call of bind: it returns after a
\* success, after the only call when the retry is disabled and after count
\* additional calls have failed; otherwise it sleeps and calls again.
AfterAttempt(c, n, ok) ==
    IF ok THEN "return"
    ELSE IF ~c.Enabled THEN "return"
    ELSE IF n - 1 >= c.Count THEN "return"
    ELSE "sleep"

\* The start of the listeners with any bind_retry object.
InitBind ==
    /\ bindConf \in BindRetryConfigs
    /\ bindPc = "config"
    /\ bindInternal = NilBindRetry
    /\ attempts = <<>>
    /\ sleeps = <<>>
    /\ bindResult = NoBindResult
    /\ shutdown = FALSE
    /\ shutdownAt = 0
    /\ UpstreamIdle
    /\ BootIdle
    /\ ReadersIdle
    /\ ServiceIdle

\* The configuration is validated and, when valid, converted.
ValidateConfig ==
    /\ bindPc = "config"
    /\ IF Validate(bindConf) # NilError
         THEN /\ bindPc' = "rejected"
              /\ bindInternal' = bindInternal
         ELSE /\ bindPc' = "bind"
              /\ bindInternal' = toInternal(bindConf)
    /\ UNCHANGED <<bindConf, attempts, sleeps, bindResult, shutdown,
                   shutdownAt>>
    /\ UNCHANGED <<upstreamVars, bootVars, readerVars, svcVars>>

\* One call of bind: the environment decides whether it succeeds.
CallBind ==
    /\ bindPc = "bind"
    /\ \E ok \in BOOLEAN :
         LET n == Len(attempts) + 1
             e == IF ok THEN NilBindErr ELSE ErrBind(n)
         IN /\ attempts' = Append(attempts, [ok |-> ok, err |-> e])
            /\ IF AfterAttempt(bindInternal, n, ok) = "return"
                 THEN /\ bindPc' = "returned"
                      /\ bindResult' = [returned |-> TRUE, err |-> e]
                 ELSE /\ bindPc' = "sleep"
                      /\ bindResult' = bindResult
    /\ UNCHANGED <<bindConf, bindInternal, sleeps, shutdown, shutdownAt>>
    /\ UNCHANGED <<upstreamVars, bootVars, readerVars, svcVars>>

\* The sleep of interval between two calls.
Sleep ==
    /\ bindPc = "sleep"
    /\ sleeps' = Append(sleeps, bindInternal.Interval)
    /\ bindPc' = "bind"
    /\ UNCHANGED <<bindConf, bindInternal, attempts, bindResult, shutdown,
                   shutdownAt>>
    /\ UNCHANGED <<upstreamVars, bootVars, readerVars, svcVars>>

\* A shutdown signal arrives while the executor runs: the executor has no way
\* to notice it.
ShutdownSignal ==
    /\ bindPc \in {"bind", "sleep"}
    /\ ~shutdown
    /\ shutdown' = TRUE
    /\ shutdownAt' = Len(attempts)
    /\ UNCHANGED <<bindConf, bindPc, bindInternal, attempts, sleeps,
                   bindResult>>
    /\ UNCHANGED <<upstreamVars, bootVars, readerVars, svcVars>>

NextBind ==
    \/ ValidateConfig
    \/ CallBind
    \/ Sleep
    \/ ShutdownSignal

SpecBind == InitBind /\ [][NextBind]_vars

\* The executor runs on the calling thread: a call of bind returns and a sleep
\* of interval ends.
SpecBindFair ==
    /\ InitBind
    /\ [][NextBind]_vars
    /\ WF_vars(ValidateConfig)
    /\ WF_vars(CallBind)
    /\ WF_vars(Sleep)

\* Every call of bind so far has failed.
AllAttemptsFailed == \A k \in 1..Len(attempts) : ~attempts[k].ok

\* C15: with the retry enabled the executor calls bind until the first call
\* that succeeds or until count + 1 calls have failed: no call follows a
\* successful one, success is returned right after the first successful call,
\* and when all count + 1 calls fail the error of the last of them is returned.
C15_CallsUntilSuccessOrExhaustion ==
    (~bindConf.isNil /\ bindConf.Enabled) =>
      /\ Len(attempts) <= bindConf.Count + 1
      /\ \A k \in 1..(Len(attempts) - 1) : ~attempts[k].ok
      /\ bindPc \in {"bind", "sleep"} =>
           /\ AllAttemptsFailed
           /\ Len(attempts) <= bindConf.Count
      /\ bindPc = "returned" =>
           /\ Len(attempts) >= 1
           /\ bindResult.returned
           /\ attempts[Len(attempts)].ok => bindResult.err = NilBindErr
           /\ ~attempts[Len(attempts)].ok =>
                /\ Len(attempts) = bindConf.Count + 1
                /\ bindResult.err = ErrBind(bindConf.Count + 1)

\* count = 4 and a bind that always fails: exactly five calls, and the error of
\* the fifth is returned.
C15_Witness ==
    /\ bindConf.Enabled
    /\ bindConf.Count = 4
    /\ bindPc = "returned"
    /\ AllAttemptsFailed
    /\ Len(attempts) = 5
    /\ bindResult.err = ErrBind(5)

\* C16: with the retry disabled the executor calls bind exactly once, whatever
\* count and interval are, never sleeps, and returns the result of that call
\* unchanged.
C16_DisabledCallsOnce ==
    (~bindConf.isNil /\ ~bindConf.Enabled) =>
      /\ Len(attempts) <= 1
      /\ sleeps = <<>>
      /\ bindPc # "sleep"
      /\ bindPc # "rejected"
      /\ Len(attempts) = 1 <=> bindPc = "returned"
      /\ bindPc = "returned" =>
           /\ bindResult.returned
           /\ bindResult.err = attempts[1].err

\* The retry is disabled with count = 4 and a positive interval, and the only
\* call of bind has failed.
C16_Witness ==
    /\ ~bindConf.isNil
    /\ ~bindConf.Enabled
    /\ bindConf.Count = 4
    /\ bindConf.Interval = 1
    /\ bindPc = "returned"
    /\ Len(attempts) = 1
    /\ bindResult.err = ErrBind(1)

\* The executor has returned after a success or after exhaustion.
ReturnedAfterSuccessOrExhaustion ==
    /\ Len(attempts) >= 1
    /\ Len(attempts) <= bindConf.Count + 1
    /\ \/ attempts[Len(attempts)].ok
       \/ Len(attempts) = IF bindConf.Enabled THEN bindConf.Count + 1 ELSE 1

\* C17: every run of the executor terminates, in success or in exhaustion after
\* at most count + 1 calls of bind, and a shutdown signal that arrives while it
\* runs changes neither its position nor the calls it has made or will make.
C17_RunTerminates ==
    /\ (bindPc \in {"bind", "sleep"}) ~> (bindPc = "returned")
    /\ [](bindPc = "returned" => ReturnedAfterSuccessOrExhaustion)
    /\ [][shutdown' # shutdown =>
            UNCHANGED <<bindPc, bindInternal, attempts, sleeps, bindResult>>]_vars

\* A run that ended in exhaustion after three or more calls, with the shutdown
\* signal arrived before its last call.
C17_Witness ==
    /\ bindPc = "returned"
    /\ shutdown
    /\ shutdownAt < Len(attempts)
    /\ AllAttemptsFailed
    /\ bindConf.Count >= 2
    /\ Len(attempts) = bindConf.Count + 1

\* ---------------------------------------------------------------------------
\* The concurrent readers of the values newUpstreams returned.
\* ---------------------------------------------------------------------------

\* The routing table, the private list and the de-duplication map.
Contents == [ups |-> ups, private |-> private, upstreams |-> upstreams]

\* A worker begins a read of the values newUpstreams has returned.
BeginRead ==
    /\ pc = "done"
    /\ \E r \in Readers :
         /\ ~snap[r].taken
         /\ snap' = [snap EXCEPT ![r] = [taken |-> TRUE, contents |-> Contents]]
    /\ readStarted' = TRUE
    /\ UNCHANGED <<upstreamVars, bootVars, bindVars, svcVars>>

\* A worker ends its read.
EndRead ==
    /\ \E r \in Readers :
         /\ snap[r].taken
         /\ snap' = [snap EXCEPT ![r] = NoSnapshot]
    /\ UNCHANGED readStarted
    /\ UNCHANGED <<upstreamVars, bootVars, bindVars, svcVars>>

NextReaders ==
    \/ ProcessGroup
    \/ Return
    \/ BeginRead
    \/ EndRead

SpecReaders == Init /\ [][NextReaders]_vars

\* C11: once newUpstreams has returned, the routing table, the private list and
\* the de-duplication map are never written again: whatever the interleaving of
\* the concurrent readers, the contents stay what the build returned and what
\* every reader in flight saw when its read began, and every write happens in
\* the build phase, before the first read begins.
C11_ImmutableAfterBuild ==
    /\ [][pc' = "done" => UNCHANGED <<ups, private, upstreams>>]_vars
    /\ [][pc = "done" => pc' = "done"]_vars
    /\ [][<<ups, private, upstreams>>' # <<ups, private, upstreams>> =>
            /\ pc = "build"
            /\ ~readStarted
            /\ ~readStarted']_vars
    /\ [](\A r \in Readers :
            snap[r].taken => /\ pc = "done"
                             /\ snap[r].contents = Contents)

\* Two readers are in flight on a table with an entry for a client prefix, with
\* a private list and with two pooled upstreams.
C11_Witness ==
    /\ pc = "done"
    /\ \A r \in Readers : snap[r].taken
    /\ Cardinality(DOMAIN ups) >= 2
    /\ ~private.isNil
    /\ Len(calls) >= 2

\* ---------------------------------------------------------------------------
\* The OS service: defaultService.Start, defaultService.Stop and the goroutine
\* of the service handler.
\* ---------------------------------------------------------------------------

NilConfiguration == [isNil |-> TRUE, Verbose |-> FALSE]

\* The results of the shutdown of the services.
ShutdownResults == {NilError, "shutting down"}

\* The value Stop returns replaced by nil.
StopResult_Nil(received) == NilError

\* return <-svc.errCh: the value received is the value returned.
StopResult(received) == received

\* The service manager holds a service made by newDefaultService: both channels
\* are open and empty, and nothing has been called.
InitService ==
    /\ svcOpts \in [verbose : BOOLEAN]
    /\ svcConf = NilConfiguration
    /\ startPc = "idle"
    /\ startErr = NilError
    /\ isVerbose = FALSE
    /\ hdlrAdded = <<>>
    /\ done = FALSE
    /\ closes = 0
    /\ handlePc = "none"
    /\ handleRes = NilError
    /\ sent = <<>>
    /\ stopPc = "idle"
    /\ stopErr = NilError
    /\ UpstreamIdle
    /\ BootIdle
    /\ BindIdle
    /\ ReadersIdle

\* The service manager calls Start.
CallStart ==
    /\ startPc = "idle"
    /\ startPc' = "parseConfig"
    /\ UNCHANGED <<svcOpts, svcConf, startErr, isVerbose, hdlrAdded, done,
                   closes, handlePc, handleRes, sent, stopPc, stopErr>>
    /\ UNCHANGED <<upstreamVars, bootVars, bindVars, readerVars>>

\* conf, err := parseConfig(svc.confPath), and the return of its error.
StartParseConfig ==
    /\ startPc = "parseConfig"
    /\ \E ok \in BOOLEAN, verbose \in BOOLEAN :
         IF ok
           THEN /\ svcConf' = [isNil |-> FALSE, Verbose |-> verbose]
                /\ startPc' = "validate"
                /\ startErr' = startErr
           ELSE /\ svcConf' = svcConf
                /\ startPc' = "returned"
                /\ startErr' = "parsing"
    /\ UNCHANGED <<svcOpts, isVerbose, hdlrAdded, done, closes, handlePc,
                   handleRes, sent, stopPc, stopErr>>
    /\ UNCHANGED <<upstreamVars, bootVars, bindVars, readerVars>>

\* err = conf.validate(), the return of its error, and the logger made for
\* svc.opts.verbose || conf.Log.Verbose.
StartValidate ==
    /\ startPc = "validate"
    /\ \E ok \in BOOLEAN :
         IF ok
           THEN /\ isVerbose' = (svcOpts.verbose \/ svcConf.Verbose)
                /\ startPc' = "newServiceHandler"
                /\ startErr' = startErr
           ELSE /\ isVerbose' = isVerbose
                /\ startPc' = "returned"
                /\ startErr' = "validating"
    /\ UNCHANGED <<svcOpts, svcConf, hdlrAdded, done, closes, handlePc,
                   handleRes, sent, stopPc, stopErr>>
    /\ UNCHANGED <<upstreamVars, bootVars, bindVars, readerVars>>

\* svcHdlr := newServiceHandler(svc.done, ...): a handler of no service.
StartNewServiceHandler ==
    /\ startPc = "newServiceHandler"
    /\ hdlrAdded' = <<>>
    /\ startPc' = "dnssvc.New"
    /\ UNCHANGED <<svcOpts, svcConf, startErr, isVerbose, done, closes,
                   handlePc, handleRes, sent, stopPc, stopErr>>
    /\ UNCHANGED <<upstreamVars, bootVars, bindVars, readerVars>>

\* dnsSvc, err := dnssvc.New(conf.DNS.toInternal()), and the return of its
\* error.
StartNewDNSService ==
    /\ startPc = "dnssvc.New"
    /\ \E ok \in BOOLEAN :
         IF ok
           THEN /\ startPc' = "dnsSvc.Start"
                /\ startErr' = startErr
           ELSE /\ startPc' = "returned"
                /\ startErr' = "creating dns service"
    /\ UNCHANGED <<svcOpts, svcConf, isVerbose, hdlrAdded, done, closes,
                   handlePc, handleRes, sent, stopPc, stopErr>>
    /\ UNCHANGED <<upstreamVars, bootVars, bindVars, readerVars>>

\* err = dnsSvc.Start(ctx), and the return of its error.
StartDNSService ==
    /\ startPc = "dnsSvc.Start"
    /\ \E ok \in BOOLEAN :
         IF ok
           THEN /\ startPc' = "go"
                /\ startErr' = startErr
           ELSE /\ startPc' = "returned"
                /\ startErr' = "starting dns service"
    /\ UNCHANGED <<svcOpts, svcConf, isVerbose, hdlrAdded, done, closes,
                   handlePc, handleRes, sent, stopPc, stopErr>>
    /\ UNCHANGED <<upstreamVars, bootVars, bindVars, readerVars>>

\* svcHdlr.add(dnsSvc) and go svcHdlr.handle(ctx, l, svc.errCh).
StartGoHandle ==
    /\ startPc = "go"
    /\ hdlrAdded' = Append(hdlrAdded, "dnsSvc")
    /\ handlePc' = "waiting"
    /\ startPc' = "return"
    /\ UNCHANGED <<svcOpts, svcConf, startErr, isVerbose, done, closes,
                   handleRes, sent, stopPc, stopErr>>
    /\ UNCHANGED <<upstreamVars, bootVars, bindVars, readerVars>>

\* return nil.
StartReturn ==
    /\ startPc = "return"
    /\ startPc' = "returned"
    /\ startErr' = NilError
    /\ UNCHANGED <<svcOpts, svcConf, isVerbose, hdlrAdded, done, closes,
                   handlePc, handleRes, sent, stopPc, stopErr>>
    /\ UNCHANGED <<upstreamVars, bootVars, bindVars, readerVars>>

\* The goroutine of the handler shuts the added services down, when svc.done is
\* closed or for a reason of its own, and goes on to send the result.
HandleShutdown ==
    /\ handlePc = "waiting"
    /\ \E cause \in {"done", "signal"}, res \in ShutdownResults :
         /\ cause = "done" => done
         /\ handleRes' = res
    /\ handlePc' = "sending"
    /\ UNCHANGED <<svcOpts, svcConf, startPc, startErr, isVerbose, hdlrAdded,
                   done, closes, sent, stopPc, stopErr>>
    /\ UNCHANGED <<upstreamVars, bootVars, bindVars, readerVars>>

\* The service manager calls Stop after Start has returned.
CallStop ==
    /\ startPc = "returned"
    /\ stopPc = "idle"
    /\ stopPc' = "close"
    /\ UNCHANGED <<svcOpts, svcConf, startPc, startErr, isVerbose, hdlrAdded,
                   done, closes, handlePc, handleRes, sent, stopErr>>
    /\ UNCHANGED <<upstreamVars, bootVars, bindVars, readerVars>>

\* close(svc.done): the close of a closed channel panics.
StopClose ==
    /\ stopPc = "close"
    /\ IF done
         THEN /\ stopPc' = "panic"
              /\ UNCHANGED <<done, closes>>
         ELSE /\ done' = TRUE
              /\ closes' = closes + 1
              /\ stopPc' = "receive"
    /\ UNCHANGED <<svcOpts, svcConf, startPc, startErr, isVerbose, hdlrAdded,
                   handlePc, handleRes, sent, stopErr>>
    /\ UNCHANGED <<upstreamVars, bootVars, bindVars, readerVars>>

\* return <-svc.errCh: the channel has no buffer, so the send of the handler and
\* the receive of Stop happen together.
StopReceive ==
    /\ stopPc = "receive"
    /\ handlePc = "sending"
    /\ sent' = Append(sent, handleRes)
    /\ stopErr' = StopResult(handleRes)
    /\ stopPc' = "returned"
    /\ handlePc' = "exited"
    /\ UNCHANGED <<svcOpts, svcConf, startPc, startErr, isVerbose, hdlrAdded,
                   done, closes, handleRes>>
    /\ UNCHANGED <<upstreamVars, bootVars, bindVars, readerVars>>

NextService ==
    \/ CallStart
    \/ StartParseConfig
    \/ StartValidate
    \/ StartNewServiceHandler
    \/ StartNewDNSService
    \/ StartDNSService
    \/ StartGoHandle
    \/ StartReturn
    \/ HandleShutdown
    \/ CallStop
    \/ StopClose
    \/ StopReceive

SpecService == InitService /\ [][NextService]_vars

\* C21: after a Start that returned nil, a call of Stop closes svc.done exactly
\* once and returns only after the handler goroutine that Start launched has
\* sent the result of the shutdown on svc.errCh, and returns exactly that value;
\* a Start that returns an error has launched no handler goroutine, so nothing
\* is ever sent on svc.errCh.
C21_StopWaitsForHandler ==
    /\ closes <= 1
    /\ done <=> closes = 1
    /\ handlePc # "none" <=> startPc \in {"return", "returned"} /\ startErr = NilError
    /\ (startPc = "returned" /\ startErr = NilError) =>
         /\ stopPc \in {"idle", "close", "receive", "returned"}
         /\ stopPc \in {"receive", "returned"} => closes = 1
         /\ stopPc \in {"idle", "close"} => closes = 0
         /\ stopPc = "returned" =>
              /\ handlePc = "exited"
              /\ sent = <<handleRes>>
              /\ stopErr = sent[1]
         /\ stopPc # "returned" => sent = <<>>
    /\ (startPc = "returned" /\ startErr # NilError) =>
         /\ handlePc = "none"
         /\ sent = <<>>
         /\ stopPc # "returned"

\* Start returned nil, the handler ran a shutdown that failed, and Stop has
\* returned the error of that shutdown.
C21_Witness ==
    /\ startPc = "returned"
    /\ startErr = NilError
    /\ stopPc = "returned"
    /\ closes = 1
    /\ handlePc = "exited"
    /\ sent = <<"shutting down">>
    /\ stopErr = "shutting down"

\* Start returned the error of dnsSvc.Start and Stop, called all the same, has
\* closed svc.done and waits on svc.errCh.
C21_WitnessFailedStart ==
    /\ startPc = "returned"
    /\ startErr = "starting dns service"
    /\ stopPc = "receive"
    /\ handlePc = "none"


====
